---- MODULE Spec2Model ----
(***************************************************************************)
(* Model of the peakrdl-sv register abstraction layer (RegModel) and of    *)
(* the node geometry it relies on (Register / Field).                      *)
(*                                                                         *)
(* Python integers are unbounded, so every data value is kept as a bit     *)
(* vector: a sequence of 0/1, least significant bit first, with no         *)
(* leading (top) zero.  The empty sequence is 0 and Len is bit_length().   *)
(* Addresses, bit positions and widths are small and stay integers.        *)
(***************************************************************************)
EXTENDS Integers, Sequences, FiniteSets, TLC

VARIABLES
    focus,           \* the register path this behaviour exercises
    ffield,          \* the field name this behaviour's field operations use
    desired_values,  \* RegModel._desired_values: path -> field name -> value
    hw,              \* the loop-back transport's store: address -> value
    task,            \* the running coroutine (write / read), or idle
    log,             \* bus transactions issued by the current / last bus access
    last,            \* the RAL call made last and its outcome ("running" until it ends)
    wr,              \* the write() call that ended last
    nwrites,         \* how many write() calls were made
    nfaults,         \* how many times the transport raised
    other,           \* the calls a second task made while an access was suspended
    written,         \* per register path, the value its last completed write() sent
    active_node,     \* Listener._active_node: the stack of nodes being built
    top_node,        \* Listener.top_node (NoNode until it is set)
    nodes,           \* the Node objects constructed so far, in construction order
    event            \* the traversal event handled last and its outcome

\* the state of the RAL and of its transport
ral_vars ==
    <<focus, ffield, desired_values, hw, task, log, last, wr, nwrites, nfaults,
      other, written>>

\* the state of the tree builder
listener_vars == <<active_node, top_node, nodes, event>>

vars == <<ral_vars, listener_vars>>

-----------------------------------------------------------------------------
(* Bounds *)

\* how many entries of the sample pools the model draws its inputs from
NSamples == 1

\* how many write() calls one behaviour makes
MaxWrites == 1

\* how many times the transport raises in one behaviour
MaxFaults == 1

\* how many nodes the traversed source tree has at most
MaxNodes == 5

\* how many calls a second task makes while an access is suspended
MaxInterleaved == 1

-----------------------------------------------------------------------------
(* Unbounded non-negative integers as bit vectors *)

Min(a, b) == IF a < b THEN a ELSE b
Max(a, b) == IF a > b THEN a ELSE b

Zero == << >>

\* the "no value" of an optional argument or property (Python None)
None == << -1 >>

IsValue(v) == \A i \in 1..Len(v) : v[i] \in {0, 1}

RECURSIVE Norm(_)
Norm(b) ==
    IF Len(b) = 0 \/ b[Len(b)] = 1 THEN b ELSE Norm(SubSeq(b, 1, Len(b) - 1))

RECURSIVE FromNat(_)
FromNat(n) == IF n = 0 THEN << >> ELSE << n % 2 >> \o FromNat(n \div 2)

RECURSIVE ToNat(_)
ToNat(b) == IF Len(b) = 0 THEN 0 ELSE b[1] + 2 * ToNat(Tail(b))

\* a value from its bytes, least significant byte first
FromBytes(bs) ==
    Norm([i \in 1..(8 * Len(bs)) |->
            (bs[((i - 1) \div 8) + 1] \div (2 ^ ((i - 1) % 8))) % 2])

\* v >> k
Shr(v, k) == IF k >= Len(v) THEN << >> ELSE SubSeq(v, k + 1, Len(v))

\* v << k
Shl(v, k) == IF Len(v) = 0 THEN << >> ELSE [i \in 1..k |-> 0] \o v

\* (1 << w) - 1
Ones(w) == [i \in 1..w |-> 1]

\* a & b
BitAnd(a, b) ==
    Norm([i \in 1..Min(Len(a), Len(b)) |-> IF a[i] = 1 /\ b[i] = 1 THEN 1 ELSE 0])

\* a | b
BitOr(a, b) ==
    [i \in 1..Max(Len(a), Len(b)) |->
        IF (i <= Len(a) /\ a[i] = 1) \/ (i <= Len(b) /\ b[i] = 1) THEN 1 ELSE 0]

\* bit i (0 = least significant) of v
BitAt(v, i) == IF i < Len(v) THEN v[i + 1] ELSE 0

\* v < 2^w
InRange(v, w) == Len(v) <= w

Reverse(s) == [i \in 1..Len(s) |-> s[Len(s) + 1 - i]]

\* f"{value:0{width}b}": the binary digits, most significant first, zero
\* padded on the left to at least `width` characters (never truncated)
FormatBin(value, width) ==
    LET digits == IF Len(value) = 0 THEN << 0 >> ELSE Reverse(value)
    IN  [i \in 1..(Max(width, Len(digits)) - Len(digits)) |-> 0] \o digits

\* s[lower:upper] for 0 <= lower, 0 <= upper (Python slicing clips at the end)
Slice(s, lower, upper) == SubSeq(s, lower + 1, Min(upper, Len(s)))

\* int(s, 2) of a non-empty digit string
ParseBin(s) == Norm(Reverse(s))

-----------------------------------------------------------------------------
(* The elaborated register map the model is built over.                    *)
(* Each register: inst_name, absolute_address, the accesswidth and         *)
(* regwidth properties, and its fields in declaration order; each field:   *)
(* inst_name, lsb, msb and the reset property (None when not declared).    *)

Fld(n, l, m, r) == [inst_name |-> n, lsb |-> l, msb |-> m, reset |-> r]

RegMap ==
    [ r1 |->
        [inst_name |-> "r1", absolute_address |-> 0,
         accesswidth |-> 8, regwidth |-> 8,
         fields |-> << Fld("f1", 0, 7, None) >>],
      r2_array_0 |->
        [inst_name |-> "r2_array", absolute_address |-> 1,
         accesswidth |-> 8, regwidth |-> 8,
         fields |-> << Fld("f1", 0, 3, FromNat(9)), Fld("f2", 4, 7, Zero) >>],
      r4 |->
        [inst_name |-> "r4", absolute_address |-> 2,
         accesswidth |-> 8, regwidth |-> 16,
         fields |-> << Fld("f1", 0, 7, None), Fld("f2", 8, 15, FromNat(18)) >>],
      r5 |->
        [inst_name |-> "r5", absolute_address |-> 4,
         accesswidth |-> 8, regwidth |-> 32,
         fields |-> << Fld("f1", 0, 7, None), Fld("f2", 8, 15, None),
                       Fld("f3", 16, 23, None), Fld("f4", 24, 31, None) >>],
      r6 |->
        [inst_name |-> "r6", absolute_address |-> 12,
         accesswidth |-> 16, regwidth |-> 32,
         fields |-> << Fld("f1", 0, 15, None), Fld("f2", 16, 31, None) >>],
      r8 |->
        [inst_name |-> "r8", absolute_address |-> 8,
         accesswidth |-> 16, regwidth |-> 16,
         fields |-> << Fld("f1", 0, 3, None), Fld("f2", 4, 7, None) >>],
      r9 |->
        [inst_name |-> "r9", absolute_address |-> 16,
         accesswidth |-> 64, regwidth |-> 64,
         fields |-> << Fld("f1", 0, 63, None) >>] ]

\* RegModel._reg_map: register path -> Register
reg_map == RegMap

Paths == DOMAIN reg_map

\* the bus addresses of the loop-back store
Addrs == 0..23

FieldSeq(reg) == reg.fields
FieldIdx(reg) == 1..Len(reg.fields)
FieldNames(reg) == {reg.fields[i].inst_name : i \in FieldIdx(reg)}
FieldOf(reg, field_name) ==
    reg.fields[CHOOSE i \in FieldIdx(reg) : reg.fields[i].inst_name = field_name]

\* Field.width (msb - lsb + 1)
width(field) == field.msb - field.lsb + 1

-----------------------------------------------------------------------------
(* node.py: derived geometry *)

\* Register.is_wide
is_wide(reg) == reg.regwidth > reg.accesswidth

\* Register.addressincr
addressincr(reg) == reg.accesswidth \div 8

\* Register.subregs
subregs(reg) == reg.regwidth \div reg.accesswidth

\* Field.absolute_address
absolute_address(reg, field) ==
    IF ~is_wide(reg) THEN reg.absolute_address
    ELSE reg.absolute_address + (field.msb \div 8)

-----------------------------------------------------------------------------
(* Inputs: the values the calls of a behaviour are made with *)

\* 32-bit patterns, cut down to the width at hand
DataPool ==
    << FromBytes(<< 52, 205, 18, 171 >>),      \* 0xAB12CD34
       FromBytes(<< 250, 0, 0, 0 >>),          \* 0x000000FA
       FromBytes(<< 255, 255, 255, 255 >>) >>  \* 0xFFFFFFFF

FieldPool ==
    << FromBytes(<< 165, 165, 165, 165 >>),    \* 0xA5A5A5A5
       FromBytes(<< 195, 60, 195, 60 >>),      \* 0x3CC33CC3
       FromBytes(<< 1, 0, 0, 0 >>) >>          \* 0x00000001

\* v mod 2^w
Trunc(v, w) == Norm(SubSeq(v, 1, Min(w, Len(v))))

\* values in [0, 2^w)
InRangeSamples(pool, w) == {Trunc(pool[i], w) : i \in 1..NSamples}

\* values >= 2^w: bit w set on top of an in-range sample
OutOfRangeSamples(pool, w) ==
    {BitOr(Trunc(pool[i], w), Shl(<< 1 >>, w)) : i \in 1..NSamples}

\* a register path and a field name that the register map does not have
UnknownPath == "r0"
UnknownField == "f0"

\* explicit data for set() and write()
DataSamples(reg) ==
    {Zero} \cup InRangeSamples(DataPool, reg.regwidth)
           \cup OutOfRangeSamples(DataPool, reg.regwidth)

\* values for set_field()
FieldSamples(field) ==
    InRangeSamples(FieldPool, width(field))
        \cup OutOfRangeSamples(FieldPool, width(field))

\* np.random.randint draws a signed 64-bit integer: its exclusive upper bound
\* 1 << w may be 2^63 at most, a larger one raises ValueError
RandintMaxBits == 63

randint_accepts(w) == w <= RandintMaxBits

\* np.random.randint(0, 1 << w): any value in [0, 2^w), both ends included
RandomDraws(pool, w) == {Zero} \cup InRangeSamples(pool, w) \cup {Ones(w)}

-----------------------------------------------------------------------------
(* regmodel.py: the pure parts of the RAL engine *)

\* the reset property taken as it is, with no default
reset_as_declared(field) == field.reset

\* field.reset or 0
reset_or_0(field) == IF field.reset = None THEN Zero ELSE field.reset

\* RegModel._map_fields: every field's mirror seeded with its reset value
map_fields ==
    [p \in Paths |->
        [fn \in FieldNames(reg_map[p]) |-> reset_or_0(FieldOf(reg_map[p], fn))]]

\* split_value_over_fields slicing the digit string as if it were written
\* least significant digit first
split_value_lsb_first(target, value) ==
    LET bits == FormatBin(value, target.regwidth)
    IN  [i \in FieldIdx(target) |->
            LET field == target.fields[i]
            IN  << absolute_address(target, field),
                   ParseBin(Slice(bits, field.lsb, field.msb + 1)) >>]

\* split_value_over_fields formatting the value without zero padding
split_value_unpadded(target, value) ==
    LET bits == FormatBin(value, 1)
    IN  [i \in FieldIdx(target) |->
            LET field == target.fields[i]
                lower == target.regwidth - field.msb - 1
                upper == target.regwidth - field.lsb
            IN  << absolute_address(target, field),
                   ParseBin(Slice(bits, lower, upper)) >>]

\* RegModel.split_value_over_fields: per field, in declaration order, the
\* pair (field.absolute_address, int(bits[lower:upper], 2))
split_value_over_fields(target, value) ==
    LET bits == FormatBin(value, target.regwidth)
    IN  [i \in FieldIdx(target) |->
            LET field == target.fields[i]
                lower == target.regwidth - field.msb - 1
                upper == target.regwidth - field.lsb
            IN  << absolute_address(target, field),
                   ParseBin(Slice(bits, lower, upper)) >>]

\* RegModel.set: the mirror after set(reg_name, value)
set_desired(dv, reg_name, value) ==
    LET target == reg_map[reg_name]
        masked_values ==
            [i \in FieldIdx(target) |-> split_value_over_fields(target, value)[i][2]]
    IN  [dv EXCEPT ![reg_name] =
            [fn \in DOMAIN dv[reg_name] |->
                IF \E i \in FieldIdx(target) : target.fields[i].inst_name = fn
                THEN masked_values[CHOOSE i \in FieldIdx(target) :
                                       target.fields[i].inst_name = fn]
                ELSE dv[reg_name][fn]]]

\* set_field storing the value in the field of that name of every register
set_field_every_register(dv, reg_name, field_name, value) ==
    [p \in DOMAIN dv |->
        IF field_name \in DOMAIN dv[p] THEN [dv[p] EXCEPT ![field_name] = value]
        ELSE dv[p]]

\* RegModel.set_field: the mirror after set_field(reg_name, field_name, value)
set_field_desired(dv, reg_name, field_name, value) ==
    [dv EXCEPT ![reg_name][field_name] = value]

RECURSIVE get_upto(_, _, _)
get_upto(dv, reg_name, n) ==
    IF n = 0 THEN Zero
    ELSE LET field == reg_map[reg_name].fields[n]
             part == Shl(dv[reg_name][field.inst_name], field.lsb)
         IN  BitOr(get_upto(dv, reg_name, n - 1), part)

\* RegModel.get: OR of every field's mirror value shifted to its lsb
get(dv, reg_name) == get_upto(dv, reg_name, Len(reg_map[reg_name].fields))

\* RegModel.get_field
get_field(dv, reg_name, field_name) == dv[reg_name][field_name]

\* RegModel.reset: the mirror after reset(reg_name)
reset_desired(dv, reg_name) ==
    [dv EXCEPT ![reg_name] =
        [fn \in DOMAIN dv[reg_name] |-> reset_or_0(FieldOf(reg_map[reg_name], fn))]]

\* RegModel.reset_field: the mirror after reset_field(reg_name, field_name)
reset_field_desired(dv, reg_name, field_name) ==
    [dv EXCEPT ![reg_name][field_name] =
        reset_or_0(FieldOf(reg_map[reg_name], field_name))]

\* write() sending 0 instead of the mirror when data is omitted
write_data_or_zero(dv, reg_name, data) ==
    IF data # None THEN data ELSE Zero

\* write() taking a data of 0 for omitted data: data or self.get(reg_name)
write_data_or_mirror(dv, reg_name, data) ==
    IF data # None /\ data # Zero THEN data ELSE get(dv, reg_name)

\* RegModel.write: data if data is not None else self.get(reg_name)
write_data_of(dv, reg_name, data) ==
    IF data # None THEN data ELSE get(dv, reg_name)

\* write() shifting the value but not masking it to the access width
masked_no_mask(target, write_data, subreg) ==
    Shr(write_data, target.accesswidth * subreg)

\* RegModel.write: (write_data >> (accesswidth * subreg)) & ((1 << accesswidth) - 1)
masked(target, write_data, subreg) ==
    BitAnd(Shr(write_data, target.accesswidth * subreg), Ones(target.accesswidth))

\* write() stepping the address by the access width in bits
write_addr_bit_stride(target, subreg) ==
    target.absolute_address + subreg * target.accesswidth

\* RegModel.write: the address chunk `subreg` is written to
write_addr(target, subreg) == target.absolute_address + subreg

\* read_register walking the sub-registers from the top one down
read_addr_descending(target, subreg) ==
    target.absolute_address + (target.regwidth \div target.accesswidth) - 1 - subreg

\* RegModel.read.read_register: the address chunk `subreg` is read from
read_addr(target, subreg) == target.absolute_address + subreg

\* read_register placing chunk `subreg` at byte offset subreg
read_accumulate_byte_shift(target, result, value, subreg) ==
    BitOr(result, Shl(value, 8 * subreg))

\* RegModel.read.read_register: result | (value << (accesswidth * subreg))
read_accumulate(target, result, value, subreg) ==
    BitOr(result, Shl(value, target.accesswidth * subreg))

\* RegModel.read.read_field: (value >> (lsb % accesswidth)) & ((1 << width) - 1)
read_field_value(target, target_field, value) ==
    LET shamt == target_field.lsb % target.accesswidth
        mask  == Ones(width(target_field))
    IN  BitAnd(Shr(value, shamt), mask)

-----------------------------------------------------------------------------
(* State *)

Idle ==
    [pc |-> "idle", reg |-> "", field |-> "", owner |-> "", data |-> None,
     write_data |-> Zero, subreg |-> 0, result |-> Zero]

Call(op, reg_name, field_name, arg, status, ret) ==
    [op |-> op, reg |-> reg_name, field |-> field_name, arg |-> arg,
     status |-> status, ret |-> ret]

Txn(kind, addr, data) == [kind |-> kind, addr |-> addr, data |-> data]

NoWrite == [reg |-> "", data |-> None, status |-> "none"]

\* Listener.top_node = None
NoNode == 0

\* no traversal event was handled yet
NoEvent == [op |-> "init", kind |-> "", status |-> "ok"]

\* RegModel.__init__ with a fresh loop-back transport: the mirror holds the
\* reset values, the store is all zero, nothing is running
Init ==
    /\ focus \in Paths
    /\ ffield \in FieldNames(reg_map[focus])
    /\ desired_values = map_fields
    /\ hw = [a \in Addrs |-> Zero]
    /\ task = Idle
    /\ log = << >>
    /\ last = Call("init", "", "", None, "ok", None)
    /\ wr = NoWrite
    /\ nwrites = 0
    /\ nfaults = 0
    /\ other = << >>
    /\ written = [p \in Paths |-> None]
    /\ active_node = << >>
    /\ top_node = NoNode
    /\ nodes = << >>
    /\ event = NoEvent

-----------------------------------------------------------------------------
(* Mirror operations.  They are synchronous and a single cooperative task  *)
(* drives all RAL calls, so they run only while no coroutine is suspended. *)
(* A behaviour first prepares the mirror and then accesses the bus.        *)

MirrorOp(dv, call) ==
    /\ task.pc = "idle"
    /\ nwrites = 0
    /\ log = << >>
    /\ desired_values' = dv
    /\ last' = call
    /\ UNCHANGED <<listener_vars, other, written, focus, ffield, hw, task, log, wr, nwrites, nfaults>>

\* RegModel.get_register_by_name finds the register (else it raises KeyError)
has_register(reg_name) == reg_name \in DOMAIN reg_map

\* RegModel.get_field_by_name(reg_name, field_name) finds a FieldWrapper
has_field(dv, reg_name, field_name) ==
    /\ reg_name \in DOMAIN dv
    /\ field_name \in DOMAIN dv[reg_name]

\* a call that raises before it has done anything
Raise(call) == MirrorOp(desired_values, call)

\* RegModel.get_register_by_name, called by the user
get_register_by_name(reg_name) ==
    IF has_register(reg_name)
    THEN MirrorOp(desired_values,
                  Call("get_register_by_name", reg_name, "", None, "ok", None))
    ELSE Raise(Call("get_register_by_name", reg_name, "", None, "KeyError", None))

\* RegModel.split_value_over_fields, called by the user on the Register that
\* get_register_by_name(reg_name) returned: the generator is run to its end
split_value_over_fields_call(reg_name, value) ==
    IF has_register(reg_name)
    THEN MirrorOp(desired_values,
                  Call("split_value_over_fields", reg_name, "", value, "ok",
                       split_value_over_fields(reg_map[reg_name], value)))
    ELSE Raise(Call("get_register_by_name", reg_name, "", None, "KeyError", None))

\* RegModel.set
set(reg_name, value) ==
    IF has_register(reg_name)
    THEN MirrorOp(set_desired(desired_values, reg_name, value),
                  Call("set", reg_name, "", value, "ok", None))
    ELSE Raise(Call("set", reg_name, "", value, "KeyError", None))

\* set_field storing nothing and returning when the field is not found
set_field_silent(reg_name, field_name, value) ==
    IF has_field(desired_values, reg_name, field_name)
    THEN MirrorOp(set_field_desired(desired_values, reg_name, field_name, value),
                  Call("set_field", reg_name, field_name, value, "ok", None))
    ELSE MirrorOp(desired_values,
                  Call("set_field", reg_name, field_name, value, "ok", None))

\* RegModel.set_field: a failed lookup is re-raised as a plain Exception
set_field(reg_name, field_name, value) ==
    IF has_field(desired_values, reg_name, field_name)
    THEN MirrorOp(set_field_desired(desired_values, reg_name, field_name, value),
                  Call("set_field", reg_name, field_name, value, "ok", None))
    ELSE Raise(Call("set_field", reg_name, field_name, value, "Exception", None))

\* RegModel.get, called by the user
get_call(reg_name) ==
    IF has_register(reg_name)
    THEN MirrorOp(desired_values,
                  Call("get", reg_name, "", None, "ok", get(desired_values, reg_name)))
    ELSE Raise(Call("get", reg_name, "", None, "KeyError", None))

\* RegModel.get_field, called by the user
get_field_call(reg_name, field_name) ==
    IF has_field(desired_values, reg_name, field_name)
    THEN MirrorOp(desired_values,
                  Call("get_field", reg_name, field_name, None, "ok",
                       get_field(desired_values, reg_name, field_name)))
    ELSE Raise(Call("get_field", reg_name, field_name, None, "KeyError", None))

\* RegModel.randomize
randomize(reg_name) ==
    IF ~has_register(reg_name)
    THEN Raise(Call("randomize", reg_name, "", None, "KeyError", None))
    ELSE IF randint_accepts(reg_map[reg_name].regwidth)
    THEN \E draw \in RandomDraws(DataPool, reg_map[reg_name].regwidth) :
            MirrorOp(set_desired(desired_values, reg_name, draw),
                     Call("randomize", reg_name, "", draw, "ok", None))
    ELSE Raise(Call("randomize", reg_name, "", None, "ValueError", None))

\* RegModel.randomize_field
randomize_field(reg_name, field_name) ==
    IF ~has_field(desired_values, reg_name, field_name)
    THEN Raise(Call("randomize_field", reg_name, field_name, None, "KeyError", None))
    ELSE LET w == width(FieldOf(reg_map[reg_name], field_name))
         IN  IF randint_accepts(w)
             THEN \E draw \in RandomDraws(FieldPool, w) :
                     MirrorOp(set_field_desired(desired_values, reg_name,
                                                field_name, draw),
                              Call("randomize_field", reg_name, field_name, draw,
                                   "ok", None))
             ELSE Raise(Call("randomize_field", reg_name, field_name, None,
                             "ValueError", None))

\* RegModel.reset
reset(reg_name) ==
    IF has_register(reg_name)
    THEN MirrorOp(reset_desired(desired_values, reg_name),
                  Call("reset", reg_name, "", None, "ok", None))
    ELSE Raise(Call("reset", reg_name, "", None, "KeyError", None))

\* RegModel.reset_field
reset_field(reg_name, field_name) ==
    IF has_field(desired_values, reg_name, field_name)
    THEN MirrorOp(reset_field_desired(desired_values, reg_name, field_name),
                  Call("reset_field", reg_name, field_name, None, "ok", None))
    ELSE Raise(Call("reset_field", reg_name, field_name, None, "KeyError", None))

-----------------------------------------------------------------------------
(* write(): a coroutine that suspends at every write callback *)

\* write() ending with set(reg_name, write_data) whether or not data was given
write_finish_sets_write_data(dv, reg_name, data) ==
    set_desired(dv, reg_name, write_data_of(dv, reg_name, data))

\* write() ending without the mirror update
write_finish_keeps_mirror(dv, reg_name, data) == dv

\* the mirror once every chunk is written: set(reg_name, data) if data was given
write_finish_desired(dv, reg_name, data) ==
    IF data # None THEN set_desired(dv, reg_name, data) ELSE dv

\* write() updating the mirror before the chunks are sent
write_call_sets_mirror(dv, reg_name, data) ==
    IF data # None THEN set_desired(dv, reg_name, data) ELSE dv

\* the mirror when write() reaches its first await: nothing has touched it
write_call_desired(dv, reg_name, data) == dv

\* write() starting the callbacks of all chunks without awaiting any
write_all_at_once(reg_name, data) ==
    IF ~has_register(reg_name)
    THEN Raise(Call("write", reg_name, "", data, "KeyError", None))
    ELSE
    LET target == reg_map[reg_name]
        write_data == write_data_of(desired_values, reg_name, data)
    IN  /\ task.pc = "idle"
        /\ nwrites' = nwrites + 1
        /\ task' = [Idle EXCEPT !.pc = "write", !.reg = reg_name, !.data = data,
                                !.write_data = write_data, !.subreg = 0]
        /\ log' = [i \in 1..subregs(target) |->
                      Txn("write", write_addr(target, i - 1),
                          masked(target, write_data, i - 1))]
        /\ last' = Call("write", reg_name, "", data, "running", None)
        /\ desired_values' = write_call_desired(desired_values, reg_name, data)
        /\ UNCHANGED <<listener_vars, other, written, focus, ffield, hw, wr, nfaults>>

\* RegModel.write, from the call to the first await: chunk 0 is issued; an
\* unknown register raises KeyError before anything else
write(reg_name, data) ==
    IF ~has_register(reg_name)
    THEN Raise(Call("write", reg_name, "", data, "KeyError", None))
    ELSE
    LET target == reg_map[reg_name]
        write_data == write_data_of(desired_values, reg_name, data)
    IN  /\ task.pc = "idle"
        /\ nwrites' = nwrites + 1
        /\ task' = [Idle EXCEPT !.pc = "write", !.reg = reg_name, !.data = data,
                                !.write_data = write_data, !.subreg = 0]
        /\ log' = << Txn("write", write_addr(target, 0), masked(target, write_data, 0)) >>
        /\ last' = Call("write", reg_name, "", data, "running", None)
        /\ desired_values' = write_call_desired(desired_values, reg_name, data)
        /\ UNCHANGED <<listener_vars, other, written, focus, ffield, hw, wr, nfaults>>

\* the awaited write callback returns: the loop-back store holds the chunk;
\* the loop goes on to the next chunk, or the call ends with the mirror update
write_callback_return ==
    LET target == reg_map[task.reg]
        txn == log[Len(log)]
        next_subreg == task.subreg + 1
    IN  /\ task.pc = "write"
        /\ hw' = [hw EXCEPT ![txn.addr] = txn.data]
        /\ IF next_subreg < subregs(target)
           THEN /\ task' = [task EXCEPT !.subreg = next_subreg]
                /\ log' = Append(log, Txn("write", write_addr(target, next_subreg),
                                          masked(target, task.write_data, next_subreg)))
                /\ UNCHANGED <<desired_values, last, wr, written>>
           ELSE /\ desired_values' =
                        write_finish_desired(desired_values, task.reg, task.data)
                /\ task' = Idle
                /\ last' = Call("write", task.reg, "", task.data, "ok", None)
                /\ wr' = [reg |-> task.reg, data |-> task.data, status |-> "ok"]
                /\ written' = [written EXCEPT ![task.reg] = task.write_data]
                /\ UNCHANGED log
        /\ UNCHANGED <<listener_vars, other, focus, ffield, nwrites, nfaults>>

\* write() updating the mirror although a chunk failed
write_raise_sets_mirror(dv, reg_name, data) ==
    IF data # None THEN set_desired(dv, reg_name, data) ELSE dv

\* the mirror after the write callback raised
write_raise_desired(dv, reg_name, data) == dv

\* the awaited write callback raises: the exception leaves write()
write_callback_raise ==
    /\ task.pc = "write"
    /\ nfaults < MaxFaults
    /\ nfaults' = nfaults + 1
    /\ desired_values' = write_raise_desired(desired_values, task.reg, task.data)
    /\ task' = Idle
    /\ last' = Call("write", task.reg, "", task.data, "TransportError", None)
    /\ wr' = [reg |-> task.reg, data |-> task.data, status |-> "TransportError"]
    /\ UNCHANGED <<listener_vars, other, written, focus, ffield, hw, log, nwrites>>

-----------------------------------------------------------------------------
(* read(): a coroutine that suspends at every read callback *)

\* RegModel.read.read_field: the key the field is looked up under
read_field_key(target) == target.inst_name

\* RegModel.read with field_name None (read_register), to the first await
read_register(reg_name) ==
    IF ~has_register(reg_name)
    THEN Raise(Call("read", reg_name, "", None, "KeyError", None))
    ELSE
    LET target == reg_map[reg_name]
    IN  /\ task.pc = "idle"
        /\ task' = [Idle EXCEPT !.pc = "read_register", !.reg = reg_name]
        /\ log' = << Txn("read", read_addr(target, 0), None) >>
        /\ last' = Call("read", reg_name, "", None, "running", None)
        /\ UNCHANGED <<listener_vars, other, written, focus, ffield, desired_values, hw, wr, nwrites, nfaults>>

\* RegModel.read with a field name (read_field), to the first await; a failed
\* field lookup raises KeyError before any transaction
read_field(reg_name, field_name) ==
    IF ~has_register(reg_name)
    THEN Raise(Call("read", reg_name, field_name, None, "KeyError", None))
    ELSE
    LET target == reg_map[reg_name]
        key == read_field_key(target)
    IN  /\ task.pc = "idle"
        /\ IF has_field(desired_values, key, field_name)
           THEN /\ task' = [Idle EXCEPT !.pc = "read_field", !.reg = reg_name,
                                        !.field = field_name, !.owner = key]
                /\ log' = << Txn("read",
                                 absolute_address(reg_map[key],
                                                  FieldOf(reg_map[key], field_name)),
                                 None) >>
                /\ last' = Call("read", reg_name, field_name, None, "running", None)
           ELSE /\ last' = Call("read", reg_name, field_name, None, "KeyError", None)
                /\ UNCHANGED <<task, log>>
        /\ UNCHANGED <<listener_vars, other, written, focus, ffield, desired_values, hw, wr, nwrites, nfaults>>

\* the awaited read callback returns the stored value
read_callback_return ==
    LET target == reg_map[task.reg]
        value == hw[log[Len(log)].addr]
    IN  /\ task.pc \in {"read_register", "read_field"}
        /\ IF task.pc = "read_field"
           THEN /\ last' = Call("read", task.reg, task.field, None, "ok",
                                read_field_value(target,
                                    FieldOf(reg_map[task.owner], task.field), value))
                /\ task' = Idle
                /\ UNCHANGED log
           ELSE LET result == read_accumulate(target, task.result, value, task.subreg)
                    next_subreg == task.subreg + 1
                IN  IF next_subreg < subregs(target)
                    THEN /\ task' = [task EXCEPT !.subreg = next_subreg,
                                                 !.result = result]
                         /\ log' = Append(log, Txn("read",
                                                   read_addr(target, next_subreg), None))
                         /\ UNCHANGED last
                    ELSE /\ last' = Call("read", task.reg, "", None, "ok", result)
                         /\ task' = Idle
                         /\ UNCHANGED log
        /\ UNCHANGED <<listener_vars, other, written, focus, ffield, desired_values, hw, wr, nwrites, nfaults>>

\* the awaited read callback raises: the exception leaves read()
read_callback_raise ==
    /\ task.pc \in {"read_register", "read_field"}
    /\ nfaults < MaxFaults
    /\ nfaults' = nfaults + 1
    /\ last' = Call("read", task.reg, task.field, None, "TransportError", None)
    /\ task' = Idle
    /\ UNCHANGED <<listener_vars, other, written, focus, ffield, desired_values, hw, log, wr, nwrites>>

-----------------------------------------------------------------------------
(* Specification *)

\* the register paths and field names a behaviour calls the RAL with
CallPaths == {focus, UnknownPath}
CallFields == {ffield, UnknownField}

Next ==
    \/ \E reg_name \in CallPaths : get_register_by_name(reg_name)
    \/ \E reg_name \in CallPaths : \E value \in DataSamples(reg_map[focus]) :
            split_value_over_fields_call(reg_name, value)
    \/ \E reg_name \in CallPaths : \E value \in DataSamples(reg_map[focus]) :
            set(reg_name, value)
    \/ \E field_name \in CallFields :
            \E value \in FieldSamples(FieldOf(reg_map[focus], ffield)) :
                set_field(focus, field_name, value)
    \/ \E reg_name \in CallPaths : get_call(reg_name)
    \/ \E field_name \in CallFields : get_field_call(focus, field_name)
    \/ \E reg_name \in CallPaths : randomize(reg_name)
    \/ \E field_name \in CallFields : randomize_field(focus, field_name)
    \/ \E reg_name \in CallPaths : reset(reg_name)
    \/ \E field_name \in CallFields : reset_field(focus, field_name)
    \/ \E reg_name \in CallPaths : \E data \in DataSamples(reg_map[focus]) \cup {None} :
            nwrites < MaxWrites /\ write(reg_name, data)
    \/ write_callback_return
    \/ write_callback_raise
    \/ \E reg_name \in CallPaths : read_register(reg_name)
    \/ \E field_name \in CallFields : read_field(focus, field_name)
    \/ \E field_name \in CallFields : read_field(UnknownPath, field_name)
    \/ read_callback_return
    \/ read_callback_raise

Spec == Init /\ [][Next]_vars

-----------------------------------------------------------------------------
(* A second cooperative task.  write() gives up control only at its awaits, *)
(* so another task of the same event loop runs exactly while write() is     *)
(* suspended in a callback; what it calls is the synchronous set() or       *)
(* set_field(), on the register being written.                              *)

\* the second task calls set(reg_name, value)
other_task_set(reg_name, value) ==
    /\ task.pc = "write"
    /\ Len(other) < MaxInterleaved
    /\ desired_values' = set_desired(desired_values, reg_name, value)
    /\ other' = Append(other, Call("set", reg_name, "", value, "ok", None))
    /\ UNCHANGED <<listener_vars, written, focus, ffield, hw, task, log, last, wr,
                   nwrites, nfaults>>

\* the second task calls set_field(reg_name, field_name, value)
other_task_set_field(reg_name, field_name, value) ==
    /\ task.pc = "write"
    /\ Len(other) < MaxInterleaved
    /\ desired_values' = set_field_desired(desired_values, reg_name, field_name, value)
    /\ other' = Append(other, Call("set_field", reg_name, field_name, value, "ok", None))
    /\ UNCHANGED <<listener_vars, written, focus, ffield, hw, task, log, last, wr,
                   nwrites, nfaults>>

ConcurrentNext ==
    \/ \E data \in DataSamples(reg_map[focus]) \cup {None} :
            nwrites < MaxWrites /\ write(focus, data)
    \/ write_callback_return
    \/ \E value \in DataSamples(reg_map[focus]) : other_task_set(focus, value)
    \/ \E value \in FieldSamples(FieldOf(reg_map[focus], ffield)) :
            other_task_set_field(focus, ffield, value)

ConcurrentSpec == Init /\ [][ConcurrentNext]_vars

-----------------------------------------------------------------------------
(* Accesses to several registers of the map over the loop-back transport:   *)
(* writes to the register under study and to the registers that lie next    *)
(* to it in the address space, and reads of the register under study.       *)

\* the bytes a register occupies: [base, base + regwidth/8)
ByteRange(reg) ==
    reg.absolute_address .. (reg.absolute_address + (reg.regwidth \div 8) - 1)

\* the registers whose bytes come right below and right above those of p
Adjacent(p) ==
    {q \in Paths \ {p} :
        \/ reg_map[q].absolute_address + (reg_map[q].regwidth \div 8)
              = reg_map[p].absolute_address
        \/ reg_map[p].absolute_address + (reg_map[p].regwidth \div 8)
              = reg_map[q].absolute_address}

LayoutNext ==
    \/ \E data \in DataSamples(reg_map[focus]) \cup {None} :
            nwrites < MaxWrites + 1 /\ write(focus, data)
    \/ \E reg_name \in Adjacent(focus) :
            \E data \in DataSamples(reg_map[reg_name]) \cup {None} :
                nwrites < MaxWrites + 1 /\ write(reg_name, data)
    \/ write_callback_return
    \/ read_register(focus)
    \/ read_field(focus, ffield)
    \/ read_callback_return

LayoutSpec == Init /\ [][LayoutNext]_vars

-----------------------------------------------------------------------------
(* listener.py: the stack based tree builder.  A Node object is a record    *)
(* in `nodes`, named by its index: its kind, its parent (NoNode when the    *)
(* constructor sets none), its children, the UserList it is, and the       *)
(* source node it wraps, of which the model keeps the accesswidth property. *)

Kinds == {"addrmap", "regfile", "reg", "field"}

\* the kinds the source tree puts under a node of each kind
ChildKinds(kind) ==
    CASE kind = "addrmap" -> {"regfile", "reg"}
      [] kind = "regfile" -> {"regfile", "reg"}
      [] kind = "reg"     -> {"field"}
      [] kind = "field"   -> {}

\* the accesswidth property of the register nodes of the source tree
AccessWidths == {8, 16}

\* a source node without the accesswidth property
NoProperties == [accesswidth |-> 0]

\* the source nodes the walker hands to the enter callback of each kind
SourceNodes(kind) ==
    IF kind = "reg" THEN {[accesswidth |-> w] : w \in AccessWidths}
    ELSE {NoProperties}

\* Node.__init__(node, parent)
NewNode(kind, node, parent) ==
    [kind |-> kind, node |-> node, parent |-> parent, children |-> << >>]

\* the stack's first entry taken for its head
bottom_node(stack) == stack[1]

\* Listener._current_node: the head of the stack, self._active_node[-1]
current_node(stack) == stack[Len(stack)]

\* Listener.push: the node is appended to the current node, if there is one,
\* and pushed
push(node) ==
    LET id == Len(nodes) + 1
    IN  /\ nodes' =
            IF active_node = << >> THEN Append(nodes, node)
            ELSE Append([nodes EXCEPT ![current_node(active_node)].children =
                                          Append(@, id)],
                        node)
        /\ active_node' = Append(active_node, id)
        /\ UNCHANGED top_node

\* pop() recording the popped node only when it is the last one on the stack
top_node_if_last(stack, old) == IF Len(stack) = 1 THEN stack[1] ELSE old

\* Listener.pop: self.top_node = self._active_node.pop()
top_node_after_pop(stack, old) == stack[Len(stack)]

\* Listener.pop; list.pop() on an empty list raises IndexError before the
\* assignment
pop(kind) ==
    IF active_node = << >>
    THEN /\ event' = [op |-> "exit", kind |-> kind, status |-> "IndexError"]
         /\ UNCHANGED <<active_node, top_node, nodes>>
    ELSE /\ top_node' = top_node_after_pop(active_node, top_node)
         /\ active_node' = SubSeq(active_node, 1, Len(active_node) - 1)
         /\ event' = [op |-> "exit", kind |-> kind, status |-> "ok"]
         /\ UNCHANGED nodes

\* Listener.enter_Addrmap: push(AddressMap(node, None))
enter_Addrmap(node) ==
    /\ push(NewNode("addrmap", node, NoNode))
    /\ event' = [op |-> "enter", kind |-> "addrmap", status |-> "ok"]
    /\ UNCHANGED ral_vars

\* Listener.enter_Regfile / enter_Reg / enter_Field:
\* push(RegisterFile | Register | Field(node, self._current_node)); on an empty
\* stack _current_node raises IndexError before a node is constructed
enter_child(kind, node) ==
    /\ IF active_node = << >>
       THEN /\ event' = [op |-> "enter", kind |-> kind, status |-> "IndexError"]
            /\ UNCHANGED <<active_node, top_node, nodes>>
       ELSE /\ push(NewNode(kind, node, current_node(active_node)))
            /\ event' = [op |-> "enter", kind |-> kind, status |-> "ok"]
    /\ UNCHANGED ral_vars

enter_Regfile(node) == enter_child("regfile", node)
enter_Reg(node) == enter_child("reg", node)
enter_Field(node) == enter_child("field", node)

\* Listener.exit_Addrmap / exit_Regfile / exit_Reg / exit_Field: pop()
exit_node(kind) ==
    /\ pop(kind)
    /\ UNCHANGED ral_vars

\* The walker's events.  One depth-first traversal of a source tree rooted at
\* an address map: a node is entered under a parent that may hold its kind,
\* and the node on top of the stack is exited.  A caller that pairs the events
\* badly exits on the empty stack.
WalkerEnters(kind) ==
    /\ Len(nodes) < MaxNodes
    /\ IF kind = "addrmap" THEN nodes = << >>
       ELSE /\ active_node # << >>
            /\ kind \in ChildKinds(nodes[current_node(active_node)].kind)

WalkerExits(kind) ==
    \/ active_node # << >> /\ nodes[current_node(active_node)].kind = kind
    \/ active_node = << >> /\ nodes # << >>

ListenerInit ==
    /\ focus = "r1"
    /\ ffield = "f1"
    /\ desired_values = map_fields
    /\ hw = [a \in Addrs |-> Zero]
    /\ task = Idle
    /\ log = << >>
    /\ last = Call("init", "", "", None, "ok", None)
    /\ wr = NoWrite
    /\ nwrites = 0
    /\ nfaults = 0
    /\ other = << >>
    /\ written = [p \in Paths |-> None]
    /\ active_node = << >>
    /\ top_node = NoNode
    /\ nodes = << >>
    /\ event = NoEvent

ListenerNext ==
    \/ \E node \in SourceNodes("addrmap") : WalkerEnters("addrmap") /\ enter_Addrmap(node)
    \/ \E node \in SourceNodes("regfile") : WalkerEnters("regfile") /\ enter_Regfile(node)
    \/ \E node \in SourceNodes("reg") : WalkerEnters("reg") /\ enter_Reg(node)
    \/ \E node \in SourceNodes("field") : WalkerEnters("field") /\ enter_Field(node)
    \/ \E kind \in Kinds : WalkerExits(kind) /\ exit_node(kind)

ListenerSpec == ListenerInit /\ [][ListenerNext]_vars

-----------------------------------------------------------------------------
(* node.py: the geometry queries of Register and Field, made on the        *)
(* registers of the map above and on further layouts: single-bit fields,   *)
(* fields that straddle a sub-register boundary, fields declared out of    *)
(* bit order, gaps, and access widths of 8, 16 and 32 bits.                *)

GeometryMap ==
    [ g1 |->
        [inst_name |-> "g1", absolute_address |-> 24,
         accesswidth |-> 16, regwidth |-> 32,
         fields |-> << Fld("f1", 0, 0, None), Fld("f2", 1, 8, None),
                       Fld("f3", 12, 19, None), Fld("f4", 31, 31, None) >>],
      g2 |->
        [inst_name |-> "g2", absolute_address |-> 28,
         accesswidth |-> 32, regwidth |-> 64,
         fields |-> << Fld("hi", 40, 47, None), Fld("lo", 0, 7, None),
                       Fld("mid", 32, 32, None) >>],
      g3 |->
        [inst_name |-> "g3", absolute_address |-> 36,
         accesswidth |-> 8, regwidth |-> 24,
         fields |-> << Fld("a", 4, 11, None), Fld("b", 23, 23, None),
                       Fld("c", 12, 15, None) >>],
      g4 |->
        [inst_name |-> "g4", absolute_address |-> 40,
         accesswidth |-> 32, regwidth |-> 32,
         fields |-> << Fld("en", 0, 0, None), Fld("mode", 4, 6, None),
                       Fld("irq", 31, 31, None) >>] ]

\* every Register node the queries are made on
node_map == RegMap @@ GeometryMap

\* get_subreg_fields placing a field in the sub-register of its lsb
get_subreg_fields_by_lsb(reg, subreg) ==
    LET in_subreg(f) == (f.lsb \div reg.accesswidth) = subreg
    IN  SelectSeq(reg.fields, in_subreg)

\* Register.get_subreg_fields:
\* [f for f in self if (f.msb // self.accesswidth) == subreg]
get_subreg_fields(reg, subreg) ==
    LET in_subreg(f) == (f.msb \div reg.accesswidth) = subreg
    IN  SelectSeq(reg.fields, in_subreg)

\* Field.get_bit_slice: f"{msb}" if msb == lsb else f"{msb}:{lsb}"
get_bit_slice(field) ==
    IF field.msb = field.lsb THEN ToString(field.msb)
    ELSE ToString(field.msb) \o ":" \o ToString(field.lsb)

\* get_cpuif_bit_slice reporting the position within the whole register
get_cpuif_bit_slice_of_register(reg, field) ==
    IF field.msb = field.lsb THEN ToString(field.msb)
    ELSE ToString(field.msb) \o ":" \o ToString(field.lsb)

\* Field.get_cpuif_bit_slice: the slice relative to the sub-register of msb
get_cpuif_bit_slice(reg, field) ==
    LET accesswidth == reg.accesswidth
        subreg_idx == field.msb \div accesswidth
        msb == field.msb - (subreg_idx * accesswidth)
        lsb == field.lsb - (subreg_idx * accesswidth)
    IN  IF msb = lsb THEN ToString(msb)
        ELSE ToString(msb) \o ":" \o ToString(lsb)

\* a query changes nothing but the record of the call
Query(call) ==
    /\ last' = call
    /\ UNCHANGED <<listener_vars, other, written, focus, ffield, desired_values,
                   hw, task, log, wr, nwrites, nfaults>>

\* Field.absolute_address of field ffield of the register
Field_absolute_address ==
    LET reg == node_map[focus]
    IN  Query(Call("absolute_address", focus, ffield, None, "ok",
                   absolute_address(reg, FieldOf(reg, ffield))))

\* Register.is_wide
Register_is_wide ==
    Query(Call("is_wide", focus, "", None, "ok", is_wide(node_map[focus])))

\* Register.subregs
Register_subregs ==
    Query(Call("subregs", focus, "", None, "ok", subregs(node_map[focus])))

\* Register.get_subreg_fields(subreg)
Register_get_subreg_fields(subreg) ==
    Query(Call("get_subreg_fields", focus, "", subreg, "ok",
               get_subreg_fields(node_map[focus], subreg)))

\* Field.get_bit_slice()
Field_get_bit_slice ==
    Query(Call("get_bit_slice", focus, ffield, None, "ok",
               get_bit_slice(FieldOf(node_map[focus], ffield))))

\* Field.get_cpuif_bit_slice()
Field_get_cpuif_bit_slice ==
    LET reg == node_map[focus]
    IN  Query(Call("get_cpuif_bit_slice", focus, ffield, None, "ok",
                   get_cpuif_bit_slice(reg, FieldOf(reg, ffield))))

\* the sub-register indices get_subreg_fields is asked for: every sub-register
\* of the register and the two indices past the last one
SubregQueries(reg) == 0..(subregs(reg) + 1)

NodeInit ==
    /\ focus \in DOMAIN node_map
    /\ ffield \in FieldNames(node_map[focus])
    /\ desired_values = map_fields
    /\ hw = [a \in Addrs |-> Zero]
    /\ task = Idle
    /\ log = << >>
    /\ last = Call("init", "", "", None, "ok", None)
    /\ wr = NoWrite
    /\ nwrites = 0
    /\ nfaults = 0
    /\ other = << >>
    /\ written = [p \in Paths |-> None]
    /\ active_node = << >>
    /\ top_node = NoNode
    /\ nodes = << >>
    /\ event = NoEvent

NodeNext ==
    \/ Field_absolute_address
    \/ Register_is_wide
    \/ Register_subregs
    \/ \E subreg \in SubregQueries(node_map[focus]) : Register_get_subreg_fields(subreg)
    \/ Field_get_bit_slice
    \/ Field_get_cpuif_bit_slice

NodeSpec == NodeInit /\ [][NodeNext]_vars

-----------------------------------------------------------------------------
(* node.py: AddressMap.get_registers and AddressMap.accesswidth, on the     *)
(* tree the listener has built.  RegModel.__init__ asks for them once the   *)
(* walk is over.  The callbacks are paired properly but may come for any    *)
(* kind under an address map or a register file, so that the trees include  *)
(* the ones get_registers is written to reject.                             *)

\* what get_child_regs leaves of the running list when it raises
RuntimeError == << 0 >>

RECURSIVE get_child_regs(_, _, _)
RECURSIVE for_children_reversed(_, _, _)
RECURSIVE for_children(_, _, _)

\* the loop over the children taken from the last child to the first
for_children_reversed(tree, children, regs) ==
    IF children = << >> THEN regs
    ELSE LET rest == for_children_reversed(tree, Tail(children), regs)
         IN  IF rest = RuntimeError THEN RuntimeError
             ELSE get_child_regs(tree, Head(children), rest)

\* `for ch in child: get_child_regs(ch, regs)`; an exception ends the loop
for_children(tree, children, regs) ==
    IF children = << >> THEN regs
    ELSE LET after == get_child_regs(tree, Head(children), regs)
         IN  IF after = RuntimeError THEN RuntimeError
             ELSE for_children(tree, Tail(children), after)

\* AddressMap.get_registers.get_child_regs: the match on the child's type
get_child_regs(tree, child, regs) ==
    CASE tree[child].kind \in {"addrmap", "field"} -> RuntimeError
      [] tree[child].kind = "regfile" -> for_children(tree, tree[child].children, regs)
      [] tree[child].kind = "reg" -> Append(regs, child)

\* AddressMap.get_registers
get_registers(tree, self) == for_children(tree, tree[self].children, << >>)

RECURSIVE min_accesswidth(_, _)
\* min([reg.accesswidth for reg in registers]) of a non-empty list
min_accesswidth(tree, registers) ==
    IF Len(registers) = 1 THEN tree[registers[1]].node.accesswidth
    ELSE Min(tree[registers[1]].node.accesswidth,
             min_accesswidth(tree, Tail(registers)))

\* the walk is over and has left an address map in top_node
WalkOver ==
    /\ active_node = << >>
    /\ top_node # NoNode
    /\ nodes[top_node].kind = "addrmap"

\* self._top_node.get_registers()
AddressMap_get_registers ==
    LET registers == get_registers(nodes, top_node)
    IN  /\ WalkOver
        /\ Query(IF registers = RuntimeError
                 THEN Call("get_registers", "", "", top_node, "RuntimeError", None)
                 ELSE Call("get_registers", "", "", top_node, "ok", registers))

\* self._top_node.accesswidth; min() of an empty list raises ValueError
AddressMap_accesswidth ==
    LET registers == get_registers(nodes, top_node)
    IN  /\ WalkOver
        /\ Query(IF registers = RuntimeError
                 THEN Call("accesswidth", "", "", top_node, "RuntimeError", None)
                 ELSE IF registers = << >>
                 THEN Call("accesswidth", "", "", top_node, "ValueError", None)
                 ELSE Call("accesswidth", "", "", top_node, "ok",
                           min_accesswidth(nodes, registers)))

\* the kinds whose enter callback may come under a node of each kind
AnyChildKinds(kind) ==
    CASE kind \in {"addrmap", "regfile"} -> Kinds
      [] kind = "reg" -> {"field"}
      [] kind = "field" -> {}

TreeEnters(kind) ==
    /\ last.op = "init"
    /\ Len(nodes) < MaxNodes
    /\ IF active_node = << >> THEN nodes = << >> /\ kind = "addrmap"
       ELSE kind \in AnyChildKinds(nodes[current_node(active_node)].kind)

TreeExits(kind) ==
    /\ last.op = "init"
    /\ active_node # << >>
    /\ nodes[current_node(active_node)].kind = kind

TreeNext ==
    \/ \E node \in SourceNodes("addrmap") : TreeEnters("addrmap") /\ enter_Addrmap(node)
    \/ \E node \in SourceNodes("regfile") : TreeEnters("regfile") /\ enter_Regfile(node)
    \/ \E node \in SourceNodes("reg") : TreeEnters("reg") /\ enter_Reg(node)
    \/ \E node \in SourceNodes("field") : TreeEnters("field") /\ enter_Field(node)
    \/ \E kind \in Kinds : TreeExits(kind) /\ exit_node(kind)
    \/ AddressMap_get_registers
    \/ AddressMap_accesswidth

TreeSpec == ListenerInit /\ [][TreeNext]_vars

-----------------------------------------------------------------------------
(* Vocabulary of the properties *)

\* every field mirror of the register holds a value of the field's width
FieldsInRange(dv, reg_name) ==
    \A i \in FieldIdx(reg_map[reg_name]) :
        LET field == reg_map[reg_name].fields[i]
        IN  InRange(dv[reg_name][field.inst_name], width(field))

RECURSIVE field_mask_upto(_, _)
field_mask_upto(reg, n) ==
    IF n = 0 THEN Zero
    ELSE BitOr(field_mask_upto(reg, n - 1),
               Shl(Ones(width(reg.fields[n])), reg.fields[n].lsb))

\* the bits of a register that some field covers
field_mask(reg) == field_mask_upto(reg, Len(reg.fields))

\* bits [msb:lsb] of v
BitsOf(v, msb, lsb) == Trunc(Shr(v, lsb), msb - lsb + 1)

RECURSIVE Reassemble(_, _, _)
\* OR over the first n logged transactions of (data << (accesswidth * i))
Reassemble(txns, accesswidth, n) ==
    IF n = 0 THEN Zero
    ELSE BitOr(Reassemble(txns, accesswidth, n - 1),
               Shl(txns[n].data, accesswidth * (n - 1)))

\* the value a write() call transmits: its data, or the mirror if omitted
WrittenValue(call) ==
    IF call.arg # None THEN call.arg ELSE get(desired_values, call.reg)

WriteDone == last.op = "write" /\ last.status = "ok"
WriteFailed == last.op = "write" /\ last.status = "TransportError"
ReadRegDone == last.op = "read" /\ last.field = "" /\ last.status = "ok"
ReadFieldEnded ==
    /\ last.op = "read"
    /\ has_field(desired_values, last.reg, last.field)
    /\ last.status \in {"ok", "KeyError"}

-----------------------------------------------------------------------------
(* C1 *)

\* C1 as stated: after set(R, v) with 0 <= v < 2^regwidth, get(R) returns v.
C1_Original ==
    (last.op = "set" /\ last.status = "ok"
        /\ InRange(last.arg, reg_map[last.reg].regwidth))
        => get(desired_values, last.reg) = last.arg

\* C1 amended: after set(R, v) with 0 <= v < 2^regwidth, from any prior mirror
\* state, get(R) returns v with the bits no field of R covers cleared; it is v
\* itself whenever v has no bit outside R's fields.
C1_SetGetRoundTrip ==
    (last.op = "set" /\ last.status = "ok"
        /\ InRange(last.arg, reg_map[last.reg].regwidth))
        => /\ get(desired_values, last.reg)
                = BitAnd(last.arg, field_mask(reg_map[last.reg]))
           /\ (BitAnd(last.arg, field_mask(reg_map[last.reg])) = last.arg
                => get(desired_values, last.reg) = last.arg)

C1_Witness ==
    /\ last.op = "set"
    /\ last.reg = "r5"
    /\ last.arg = DataPool[1]
    /\ get(desired_values, "r5") = DataPool[1]

-----------------------------------------------------------------------------
(* C2 *)

\* C2 as stated: a step set_field(R, f, x) with 0 <= x < 2^width(f), from any
\* mirror state, leaves get_field(R, f) = x, keeps every other field's mirror
\* value, puts x in bits [msb:lsb] of get(R) and keeps every bit of get(R)
\* outside f's range.
C2_Original ==
    [][\A x \in FieldSamples(FieldOf(reg_map[focus], ffield)) :
        LET f == FieldOf(reg_map[focus], ffield)
            before == get(desired_values, focus)
            after == get(desired_values', focus)
        IN  (InRange(x, width(f)) /\ set_field(focus, ffield, x))
            => /\ get_field(desired_values', focus, ffield) = x
               /\ \A g \in FieldNames(reg_map[focus]) \ {ffield} :
                     desired_values'[focus][g] = desired_values[focus][g]
               /\ BitsOf(after, f.msb, f.lsb) = x
               /\ \A i \in 0..Max(Len(before), Len(after)) :
                     (i < f.lsb \/ i > f.msb) => BitAt(after, i) = BitAt(before, i)
      ]_vars

-----------------------------------------------------------------------------
(* C3 *)

\* C3: for a wide register R and 0 <= v < 2^regwidth, on the loop-back
\* transport, a read(R) that follows a completed write(R, v) returns v.
C3_WideWriteReadBack ==
    (/\ ReadRegDone
     /\ wr = [reg |-> last.reg, data |-> wr.data, status |-> "ok"]
     /\ wr.data # None
     /\ is_wide(reg_map[last.reg])
     /\ InRange(wr.data, reg_map[last.reg].regwidth))
        => last.ret = wr.data

C3_Witness ==
    /\ ReadRegDone
    /\ last.reg = "r6"
    /\ wr = [reg |-> "r6", data |-> DataPool[1], status |-> "ok"]
    /\ last.ret = DataPool[1]

-----------------------------------------------------------------------------
(* C4 *)

\* C4 as stated: a completed write(R, v) is observed as exactly subregs(R)
\* write transactions at base, base+incr, ..., base+(k-1)*incr in ascending
\* order, incr = Register.addressincr = accesswidth/8.
C4_Original ==
    WriteDone =>
        LET target == reg_map[last.reg]
        IN  /\ Len(log) = subregs(target)
            /\ \A i \in 1..Len(log) :
                  /\ log[i].kind = "write"
                  /\ log[i].addr
                        = target.absolute_address + (i - 1) * addressincr(target)

-----------------------------------------------------------------------------
(* C5 *)

-----------------------------------------------------------------------------
(* C6 *)

\* C6: when the mirror of R holds in-range field values and write(R) with
\* data omitted has completed on the loop-back transport, a read(R) that
\* follows returns exactly get(R).
C6_MirrorWriteRead ==
    (/\ ReadRegDone
     /\ wr = [reg |-> last.reg, data |-> None, status |-> "ok"]
     /\ FieldsInRange(desired_values, last.reg))
        => last.ret = get(desired_values, last.reg)

C6_Witness ==
    /\ ReadRegDone
    /\ last.reg = "r5"
    /\ wr = [reg |-> "r5", data |-> None, status |-> "ok"]
    /\ FieldsInRange(desired_values, "r5")
    /\ get_field(desired_values, "r5", "f4") # Zero
    /\ last.ret = get(desired_values, "r5")

-----------------------------------------------------------------------------
(* C7 *)

\* C7 as stated: after write(R) with data omitted has completed on the
\* loop-back transport (the mirror holding in-range field values), read(R, f)
\* returns get_field(R, f), for every register R and every field f of R.
C7_Original ==
    (/\ ReadFieldEnded
     /\ wr = [reg |-> last.reg, data |-> None, status |-> "ok"]
     /\ FieldsInRange(desired_values, last.reg))
        => /\ last.status = "ok"
           /\ last.ret = get_field(desired_values, last.reg, last.field)

-----------------------------------------------------------------------------
(* C8 *)

\* C8 as stated, for every explicit data d >= 0: after write(R, d) has
\* completed on the loop-back transport, get(R) equals the value read(R) then
\* returns.  The two are compared on the bits the fields of R cover: the
\* loop-back store also keeps the bits no field covers, which no mirror holds.
C8_Original ==
    (/\ ReadRegDone
     /\ wr = [reg |-> last.reg, data |-> wr.data, status |-> "ok"]
     /\ wr.data # None)
        => get(desired_values, last.reg)
              = BitAnd(last.ret, field_mask(reg_map[last.reg]))

-----------------------------------------------------------------------------
(* C9 *)

\* what holds once the write callback has raised at chunk j = Len(log) - 1
WriteFailureState ==
    WriteFailed =>
        LET target == reg_map[last.reg]
            value == WrittenValue(last)
        IN  /\ task = Idle
            /\ Len(log) \in 1..subregs(target)
            /\ \A i \in 1..Len(log) :
                  log[i] = Txn("write", target.absolute_address + (i - 1),
                               Trunc(Shr(value, target.accesswidth * (i - 1)),
                                     target.accesswidth))
            /\ \A i \in 1..(Len(log) - 1) : hw[log[i].addr] = log[i].data

\* C9: if the write callback raises at chunk j, the error ends write() (the
\* caller sees it), the transactions issued are exactly chunks 0..j, each
\* once and in order, the chunks 0..j-1 already stored stay stored, and no
\* step of the call, from its start to the failure, has changed the mirror.
C9_WriteFailure ==
    /\ []WriteFailureState
    /\ [][(last'.op = "write" /\ last'.status \in {"running", "TransportError"})
            => desired_values' = desired_values]_vars
    /\ [][(task.pc = "write" /\ last'.status = "TransportError")
            => (hw' = hw /\ log' = log /\ task' = Idle)]_vars

C9_Witness ==
    /\ WriteFailed
    /\ last.reg = "r5"
    /\ last.arg = DataPool[1]
    /\ Len(log) = 3
    /\ hw[5] = log[2].data
    /\ hw[6] = Zero
    /\ get(desired_values, "r5") # DataPool[1]

-----------------------------------------------------------------------------
(* C10 *)

\* C10: during write(R, d) with explicit data no step changes the mirror
\* until the callback of the last chunk (index subregs-1) returns; that step
\* alone performs set(R, d), and it ends the call.
C10_MirrorUpdatedLast ==
    [][(\/ (task.pc = "idle" /\ last'.op = "write" /\ last'.arg # None)
        \/ (task.pc = "write" /\ task.data # None))
        => IF task.pc = "write" /\ last'.status = "ok"
           THEN /\ task.subreg = subregs(reg_map[task.reg]) - 1
                /\ Len(log) = subregs(reg_map[task.reg])
                /\ desired_values' = set_desired(desired_values, task.reg, task.data)
                /\ task' = Idle
           ELSE desired_values' = desired_values
      ]_vars

C10_Witness ==
    /\ WriteDone
    /\ last.reg = "r6"
    /\ last.arg = DataPool[1]
    /\ Len(log) = 2
    /\ get(desired_values, "r6") = DataPool[1]

-----------------------------------------------------------------------------
(* C11 *)

\* a completed write(R) with data omitted sent the chunks of get(R)
MirrorTransmitted ==
    (WriteDone /\ last.arg = None) =>
        LET target == reg_map[last.reg]
            value == get(desired_values, last.reg)
        IN  /\ Len(log) = subregs(target)
            /\ \A i \in 1..Len(log) :
                  log[i] = Txn("write", target.absolute_address + (i - 1),
                               Trunc(Shr(value, target.accesswidth * (i - 1)),
                                     target.accesswidth))
            /\ FieldsInRange(desired_values, last.reg)
                  => Reassemble(log, target.accesswidth, Len(log)) = value

\* C11: write(R) with data omitted transmits the mirror value get(R) and no
\* step of it, from the call to its end, changes the mirror; on r8 (one
\* sub-register, f1 at [3:0], f2 at [7:4]) a write(r8) that follows
\* randomize_field(r8, f1) issues exactly one transaction, and its low byte is
\* (f2_value << 4) | f1_value.
C11_WriteOmittedData ==
    /\ []MirrorTransmitted
    /\ [][(\/ (task.pc = "idle" /\ last'.op = "write" /\ last'.arg = None)
           \/ (task.pc = "write" /\ task.data = None))
            => desired_values' = desired_values]_vars
    /\ [][(/\ last = Call("randomize_field", "r8", "f1", last.arg, "ok", None)
           /\ last'.op = "write" /\ last'.reg = "r8" /\ last'.arg = None)
            => /\ subregs(reg_map["r8"]) = 1
               /\ Len(log') = 1
               /\ log'[1].kind = "write"
               /\ Trunc(log'[1].data, 8)
                    = BitOr(Shl(get_field(desired_values, "r8", "f2"), 4),
                            get_field(desired_values, "r8", "f1"))]_vars

C11_Witness ==
    /\ WriteDone
    /\ last.reg = "r8"
    /\ last.arg = None
    /\ get_field(desired_values, "r8", "f1") = FromNat(5)
    /\ get_field(desired_values, "r8", "f2") = FromNat(3)
    /\ log = << Txn("write", 8, FromNat(53)) >>

-----------------------------------------------------------------------------
(* C12 *)

\* a field's declared reset value, 0 when it declares none
DeclaredReset(field) == IF field.reset # None THEN field.reset ELSE Zero

RECURSIVE ResetImage(_, _)
\* OR over the first n fields of (declared reset << lsb)
ResetImage(reg, n) ==
    IF n = 0 THEN Zero
    ELSE BitOr(ResetImage(reg, n - 1),
               Shl(DeclaredReset(reg.fields[n]), reg.fields[n].lsb))

MirrorAtReset ==
    /\ last.op = "init" =>
          \A p \in Paths : \A i \in FieldIdx(reg_map[p]) :
              desired_values[p][reg_map[p].fields[i].inst_name]
                  = DeclaredReset(reg_map[p].fields[i])
    /\ (last.op = "reset" /\ last.status = "ok") =>
          /\ \A i \in FieldIdx(reg_map[last.reg]) :
                desired_values[last.reg][reg_map[last.reg].fields[i].inst_name]
                    = DeclaredReset(reg_map[last.reg].fields[i])
          /\ get(desired_values, last.reg)
                = ResetImage(reg_map[last.reg], Len(reg_map[last.reg].fields))
    /\ (last.op = "reset_field" /\ last.status = "ok") =>
          desired_values[last.reg][last.field]
              = DeclaredReset(FieldOf(reg_map[last.reg], last.field))

\* C12: right after construction every field mirror holds the field's declared
\* reset value (0 when none is declared); so do the fields of R after reset(R)
\* and f after reset_field(R, f), from any mirror state; get(R) after reset(R)
\* is the OR of the reset values shifted to their lsb; a reset of R that
\* follows a reset of R changes nothing.
C12_Reset ==
    /\ []MirrorAtReset
    /\ [][(last.op = "reset" /\ last'.op = "reset" /\ last'.reg = last.reg)
            => desired_values' = desired_values]_vars
    /\ [][(last.op = "reset_field" /\ last'.op = "reset_field"
           /\ last'.reg = last.reg /\ last'.field = last.field)
            => desired_values' = desired_values]_vars

C12_Witness ==
    /\ last.op = "reset"
    /\ last.reg = "r4"
    /\ get_field(desired_values, "r4", "f1") = Zero
    /\ get(desired_values, "r4") = Shl(FromNat(18), 8)

-----------------------------------------------------------------------------
(* C13 *)

RandomizeInRange ==
    /\ (last.op = "randomize" /\ has_register(last.reg)) =>
          /\ last.status = "ok"
          /\ InRange(get(desired_values, last.reg), reg_map[last.reg].regwidth)
    /\ (last.op = "randomize_field"
        /\ has_field(desired_values, last.reg, last.field)) =>
          /\ last.status = "ok"
          /\ InRange(get_field(desired_values, last.reg, last.field),
                     width(FieldOf(reg_map[last.reg], last.field)))

\* C13 as stated, for every register and field width: randomize(R) leaves
\* 0 <= get(R) < 2^regwidth, randomize_field(R, f) leaves
\* 0 <= get_field(R, f) < 2^width(f) and changes no other field's mirror
\* value (a call that raises produces no outcome at all).
C13_Original ==
    /\ []RandomizeInRange
    /\ [][(last'.op = "randomize_field" /\ last' # last)
            => \A p \in Paths : \A fn \in FieldNames(reg_map[p]) :
                  (p # last'.reg \/ fn # last'.field)
                      => desired_values'[p][fn] = desired_values[p][fn]]_vars

-----------------------------------------------------------------------------
(* C14 *)

\* C14: for the value v < 2^regwidth that set(R, v) or randomize(R) has just
\* split, split_value_over_fields(R, v) has one pair per field of R, in
\* declaration order, whose value is (v >> lsb) & (2^width - 1), and the
\* mirror holds these values; set(r5, 0xAB12CD34) leaves get_field(r5, f1) =
\* 0x34 and get_field(r5, f4) = 0xAB.
C14_SplitValue ==
    /\ (/\ last.op \in {"set", "randomize"}
        /\ last.status = "ok"
        /\ InRange(last.arg, reg_map[last.reg].regwidth)) =>
          LET target == reg_map[last.reg]
              pairs == split_value_over_fields(target, last.arg)
          IN  /\ Len(pairs) = Len(target.fields)
              /\ \A i \in FieldIdx(target) :
                    LET f == target.fields[i]
                    IN  /\ pairs[i][2]
                              = BitAnd(Shr(last.arg, f.lsb), Ones(width(f)))
                        /\ desired_values[last.reg][f.inst_name] = pairs[i][2]
    /\ last = Call("set", "r5", "", FromBytes(<< 52, 205, 18, 171 >>), "ok", None) =>
          /\ get_field(desired_values, "r5", "f1") = FromNat(52)
          /\ get_field(desired_values, "r5", "f4") = FromNat(171)

C14_Witness ==
    /\ last = Call("set", "r5", "", FromBytes(<< 52, 205, 18, 171 >>), "ok", None)
    /\ get_field(desired_values, "r5", "f2") = FromNat(205)
    /\ get_field(desired_values, "r5", "f3") = FromNat(18)

-----------------------------------------------------------------------------
(* C15 *)

RECURSIVE ReadImage(_, _, _)
\* OR over the first n logged reads of (the value stored at the address read
\* << (accesswidth * i))
ReadImage(txns, accesswidth, n) ==
    IF n = 0 THEN Zero
    ELSE BitOr(ReadImage(txns, accesswidth, n - 1),
               Shl(hw[txns[n].addr], accesswidth * (n - 1)))

RegisterReadState ==
    /\ task.pc = "read_register" =>
          /\ Len(log) = task.subreg + 1
          /\ task.subreg < subregs(reg_map[task.reg])
          /\ \A i \in 1..Len(log) :
                log[i] = Txn("read", reg_map[task.reg].absolute_address + (i - 1), None)
          /\ task.result = ReadImage(log, reg_map[task.reg].accesswidth, task.subreg)
    /\ ReadRegDone =>
          LET target == reg_map[last.reg]
          IN  /\ Len(log) = subregs(target)
              /\ \A i \in 1..Len(log) :
                    log[i] = Txn("read", target.absolute_address + (i - 1), None)
              /\ \A i \in 1..(Len(log) - 1) : log[i].addr < log[i + 1].addr
              /\ last.ret = ReadImage(log, target.accesswidth, Len(log))

\* C15: read(R) with no field issues exactly subregs(R) read transactions, one
\* per chunk index 0..subregs-1 at ascending addresses, and returns the OR of
\* the values read, value i shifted by accesswidth*i; it issues no write
\* transaction and stores nothing.
C15_ReadRegister ==
    /\ []RegisterReadState
    /\ [][(task.pc = "read_register" \/ task'.pc = "read_register")
            => (hw' = hw /\ desired_values' = desired_values)]_vars

C15_Witness ==
    /\ ReadRegDone
    /\ last.reg = "r5"
    /\ Len(log) = 4
    /\ hw[7] = FromNat(171)
    /\ last.ret = FromBytes(<< 52, 205, 18, 171 >>)

-----------------------------------------------------------------------------
(* C16 *)

\* C16 as stated, for a read(R, f) that found its field: it issues exactly one
\* read transaction, at the address where write(R) places the chunk that
\* holds f (chunk index msb(f) div accesswidth), and returns
\* (chunk >> (lsb(f) mod accesswidth)) & (2^width(f) - 1).
C16_Original ==
    /\ task.pc = "read_field" =>
          LET target == reg_map[task.reg]
              f == FieldOf(target, task.field)
          IN  log = << Txn("read", write_addr(target, f.msb \div target.accesswidth),
                           None) >>
    /\ (last.op = "read" /\ last.field # "" /\ last.status = "ok") =>
          LET target == reg_map[last.reg]
              f == FieldOf(target, last.field)
              chunk == hw[write_addr(target, f.msb \div target.accesswidth)]
          IN  /\ log = << Txn("read", write_addr(target, f.msb \div target.accesswidth),
                              None) >>
              /\ last.ret = BitAnd(Shr(chunk, f.lsb % target.accesswidth),
                                   Ones(width(f)))

-----------------------------------------------------------------------------
(* C17 *)

\* the step is a call of one of `ops` that changes nothing but its outcome
FailsWithoutEffect(status) ==
    /\ last'.status = status
    /\ last'.ret = None
    /\ desired_values' = desired_values
    /\ log' = log
    /\ hw' = hw
    /\ task' = task

-----------------------------------------------------------------------------
(* C18 *)

\* the callbacks of the running access that were invoked and have not returned
InFlight ==
    IF task.pc \in {"write", "read_register"} THEN Len(log) - task.subreg
    ELSE IF task.pc = "read_field" THEN Len(log)
    ELSE 0

OneInFlight ==
    /\ InFlight <= 1
    /\ task.pc # "idle" => InFlight = 1
    /\ task.pc \in {"write", "read_register"} =>
          /\ \A i \in 1..(Len(log) - 1) : log[i].addr < log[i + 1].addr
          /\ \A i \in 1..Len(log) :
                log[i].kind = (IF task.pc = "write" THEN "write" ELSE "read")

\* C18: within one write(R) or read(R) at most one callback is in flight at
\* any time; the callback of the next chunk is invoked only in the step in
\* which the callback of the chunk before it returns (for a write: its data
\* is in the store by then); the chunks are accessed at ascending addresses.
C18_SerialCallbacks ==
    /\ []OneInFlight
    /\ [][(task.pc \in {"write", "read_register"} /\ task'.pc = task.pc
           /\ log' # log)
            => /\ log' = Append(log, log'[Len(log')])
               /\ task'.subreg = task.subreg + 1
               /\ log'[Len(log')].addr > log[Len(log)].addr
               /\ task.pc = "write"
                    => hw'[log[Len(log)].addr] = log[Len(log)].data
               /\ task.pc = "read_register"
                    => task'.result
                         = BitOr(task.result,
                                 Shl(hw[log[Len(log)].addr],
                                     reg_map[task.reg].accesswidth * task.subreg))
      ]_vars

C18_Witness ==
    /\ task.pc = "write"
    /\ task.reg = "r5"
    /\ task.data = FromBytes(<< 52, 205, 18, 171 >>)
    /\ Len(log) = 3
    /\ hw[5] = FromNat(205)
    /\ hw[6] = Zero
    /\ log[3].data = FromNat(18)

-----------------------------------------------------------------------------
(* C19 *)

\* the nodes whose parent is n, in the order they were entered
RECURSIVE EnteredUnder(_, _)
EnteredUnder(n, upto) ==
    IF upto = 0 THEN << >>
    ELSE IF nodes[upto].parent = n
         THEN Append(EnteredUnder(n, upto - 1), upto)
         ELSE EnteredUnder(n, upto - 1)

BuiltTree ==
    /\ \A n \in 1..Len(nodes) :
          /\ nodes[n].children = EnteredUnder(n, Len(nodes))
          /\ \A i \in 1..Len(nodes[n].children) :
                nodes[nodes[n].children[i]].parent = n
    /\ nodes # << >> => (nodes[1].kind = "addrmap" /\ nodes[1].parent = NoNode)
    /\ active_node # << >> =>
          /\ active_node[1] = 1
          /\ \A i \in 2..Len(active_node) :
                nodes[active_node[i]].parent = active_node[i - 1]
    /\ (nodes # << >> /\ active_node = << >>) => top_node = 1

\* C19: during one well-formed traversal rooted at an address map, the stack
\* is at every point the chain of ancestors of the node being visited; every
\* node's child list is exactly the nodes entered while it was on top of the
\* stack, in enter order, each with that node as its parent; after the final
\* exit the stack is empty and top_node is the AddressMap of the first enter.
C19_TreeBuilder ==
    /\ []BuiltTree
    /\ [][(event'.op = "enter" /\ event'.status = "ok" /\ nodes' # nodes)
            => LET id == Len(nodes) + 1
               IN  /\ Len(nodes') = id
                   /\ active_node' = Append(active_node, id)
                   /\ active_node = << >> =>
                         (nodes' = Append(nodes, nodes'[id])
                          /\ nodes'[id].parent = NoNode)
                   /\ active_node # << >> =>
                         LET top == active_node[Len(active_node)]
                         IN  /\ nodes'[id].parent = top
                             /\ nodes'[top].children
                                   = Append(nodes[top].children, id)
                             /\ \A n \in 1..Len(nodes) :
                                   n # top => nodes'[n] = nodes[n]
      ]_vars

C19_Witness ==
    /\ active_node = << >>
    /\ top_node = 1
    /\ Len(nodes) = 5
    /\ nodes[1].children = << 2, 5 >>
    /\ nodes[2].kind = "regfile"
    /\ nodes[3].kind = "reg"
    /\ nodes[4].kind = "field"
    /\ nodes[3].children = << 4 >>
    /\ nodes[5].kind = "reg"

-----------------------------------------------------------------------------
(* C20 *)

\* C20 as stated: the popped node becomes top_node only if it is the last one
\* on the stack, so top_node is unset at every point before the final exit
\* and is never a Field, Register or RegisterFile; an exit on an empty stack
\* fails without changing top_node.
C20_Original ==
    /\ [](/\ active_node # << >> => top_node = NoNode
          /\ top_node # NoNode => nodes[top_node].kind = "addrmap")
    /\ [][(event'.op = "exit" /\ event'.status = "IndexError")
            => top_node' = top_node]_vars

\* top_node is unset exactly while no node has been exited; afterwards it is a
\* node that has left the stack, the root once the stack is empty
TopNodeState ==
    /\ top_node = NoNode <=> Len(active_node) = Len(nodes)
    /\ top_node # NoNode =>
          /\ top_node \in 1..Len(nodes)
          /\ \A i \in 1..Len(active_node) : active_node[i] # top_node
    /\ (nodes # << >> /\ active_node = << >>) =>
          (top_node = 1 /\ nodes[top_node].kind = "addrmap")

\* C20 amended: every exit on a non-empty stack records the node it pops as
\* top_node, whatever its kind, so during a traversal top_node is the node
\* exited last (unset only until the first exit) and it is the AddressMap once
\* the final exit has emptied the stack; an exit on an empty stack fails
\* without changing top_node or the stack.
C20_TopNode ==
    /\ []TopNodeState
    /\ [][(event'.op = "exit" /\ active_node # << >>)
            => /\ event'.status = "ok"
               /\ top_node' = active_node[Len(active_node)]
               /\ active_node' = SubSeq(active_node, 1, Len(active_node) - 1)
               /\ nodes' = nodes]_vars
    /\ [][(event'.op = "exit" /\ active_node = << >> /\ event' # event)
            => /\ event'.status = "IndexError"
               /\ top_node' = top_node
               /\ active_node' = active_node
               /\ nodes' = nodes]_vars

C20_Witness ==
    /\ event = [op |-> "exit", kind |-> "field", status |-> "ok"]
    /\ Len(active_node) = 3
    /\ top_node = 4
    /\ nodes[top_node].kind = "field"

-----------------------------------------------------------------------------
(* C21 *)

\* C21 as stated: for every field f of register R, Field.absolute_address is
\* base + (msb div accesswidth) * (accesswidth/8) when R is wide (regwidth >
\* accesswidth), and base otherwise.
C21_Original ==
    last.op = "absolute_address" =>
        LET reg == node_map[last.reg]
            f == FieldOf(reg, last.field)
        IN  last.ret = IF reg.regwidth > reg.accesswidth
                       THEN reg.absolute_address
                              + (f.msb \div reg.accesswidth) * (reg.accesswidth \div 8)
                       ELSE reg.absolute_address

-----------------------------------------------------------------------------
(* C22 *)

\* the fields lie inside the register, whose width is a multiple of its
\* access width
WellFormedRegister(reg) ==
    /\ reg.regwidth % reg.accesswidth = 0
    /\ \A k \in FieldIdx(reg) :
          0 <= reg.fields[k].lsb /\ reg.fields[k].lsb <= reg.fields[k].msb
              /\ reg.fields[k].msb < reg.regwidth

\* how many entries of the list are the field named n
RECURSIVE Occurrences(_, _)
Occurrences(fields, n) ==
    IF fields = << >> THEN 0
    ELSE (IF Head(fields).inst_name = n THEN 1 ELSE 0) + Occurrences(Tail(fields), n)

\* the position of the field named n in the register's declaration order
DeclIndex(reg, n) == CHOOSE k \in FieldIdx(reg) : reg.fields[k].inst_name = n

SubregPartition(reg) ==
    /\ \A i \in SubregQueries(reg) :
          LET fs == get_subreg_fields(reg, i)
          IN  /\ \A k \in 1..Len(fs) : fs[k].msb \div reg.accesswidth = i
              /\ \A k \in 1..(Len(fs) - 1) :
                    DeclIndex(reg, fs[k].inst_name) < DeclIndex(reg, fs[k + 1].inst_name)
              /\ i >= subregs(reg) => fs = << >>
    /\ \A i, j \in SubregQueries(reg) :
          i # j => \A n \in FieldNames(reg) :
                      ~(/\ Occurrences(get_subreg_fields(reg, i), n) > 0
                        /\ Occurrences(get_subreg_fields(reg, j), n) > 0)
    /\ \A k \in FieldIdx(reg) :
          \E i \in 0..(subregs(reg) - 1) :
              /\ Occurrences(get_subreg_fields(reg, i), reg.fields[k].inst_name) = 1
              /\ reg.fields[k] \in {get_subreg_fields(reg, i)[m] :
                                      m \in 1..Len(get_subreg_fields(reg, i))}

\* C22: for a register whose fields lie inside it and whose regwidth is a
\* multiple of accesswidth, get_subreg_fields(i) holds the fields with
\* msb div accesswidth = i in declaration order; the lists of i = 0 ..
\* subregs-1 are pairwise disjoint and hold every field exactly once; the list
\* is empty for i >= subregs; is_wide holds iff subregs > 1.
C22_SubregFields ==
    /\ (last.op = "get_subreg_fields" /\ WellFormedRegister(node_map[last.reg])) =>
          /\ last.ret = get_subreg_fields(node_map[last.reg], last.arg)
          /\ SubregPartition(node_map[last.reg])
          /\ last.arg >= subregs(node_map[last.reg]) => last.ret = << >>
    /\ (last.op = "is_wide" /\ WellFormedRegister(node_map[last.reg])) =>
          (last.ret <=> subregs(node_map[last.reg]) > 1)
    /\ (last.op = "subregs" /\ WellFormedRegister(node_map[last.reg])) =>
          last.ret * node_map[last.reg].accesswidth = node_map[last.reg].regwidth

C22_Witness ==
    /\ last.op = "get_subreg_fields"
    /\ last.reg = "g1"
    /\ last.arg = 1
    /\ Len(last.ret) = 2
    /\ last.ret[1].inst_name = "f3"
    /\ last.ret[1].lsb < 16
    /\ last.ret[2].inst_name = "f4"

-----------------------------------------------------------------------------
(* C23 *)

RECURSIVE ReachWithin(_, _, _)
\* the direct children of self and, to depth k, the children of the register
\* files among them
ReachWithin(tree, self, k) ==
    IF k = 0 THEN {tree[self].children[i] : i \in 1..Len(tree[self].children)}
    ELSE LET inner == ReachWithin(tree, self, k - 1)
         IN  inner \cup
             UNION {{tree[n].children[i] : i \in 1..Len(tree[n].children)} :
                        n \in {m \in inner : tree[m].kind = "regfile"}}

\* the nodes at the levels get_registers looks at
Inspected(tree, self) == ReachWithin(tree, self, Len(tree))

RECURSIVE UnderRegfiles(_, _, _)
\* node n hangs from self through register files only
UnderRegfiles(tree, n, self) ==
    /\ tree[n].parent # NoNode
    /\ \/ tree[n].parent = self
       \/ /\ tree[tree[n].parent].kind = "regfile"
          /\ UnderRegfiles(tree, tree[n].parent, self)

\* an AddressMap or a Field is a direct child of self or of a register file
\* under it
Unexpected(tree, self) ==
    \E c \in Inspected(tree, self) : tree[c].kind \in {"addrmap", "field"}

\* C23: get_registers raises exactly when an AddressMap or a Field is a direct
\* child of the address map or of a register file under it; otherwise it
\* returns the Register nodes that hang from the root through register files
\* of any depth, each once, in depth-first declaration order (the order they
\* were entered in); accesswidth is the least accesswidth in that list.
C23_GetRegisters ==
    /\ last.op = "get_registers" =>
          /\ last.status = "RuntimeError" <=> Unexpected(nodes, last.arg)
          /\ last.status = "ok" =>
                /\ \A i \in 1..(Len(last.ret) - 1) : last.ret[i] < last.ret[i + 1]
                /\ {last.ret[i] : i \in 1..Len(last.ret)}
                      = {n \in 1..Len(nodes) :
                            nodes[n].kind = "reg" /\ UnderRegfiles(nodes, n, last.arg)}
                /\ {last.ret[i] : i \in 1..Len(last.ret)}
                      = {n \in Inspected(nodes, last.arg) : nodes[n].kind = "reg"}
    /\ last.op = "accesswidth" =>
          /\ last.status = "RuntimeError" <=> Unexpected(nodes, last.arg)
          /\ last.status = "ok" =>
                LET registers == {n \in Inspected(nodes, last.arg) : nodes[n].kind = "reg"}
                IN  /\ \E n \in registers : last.ret = nodes[n].node.accesswidth
                    /\ \A n \in registers : last.ret <= nodes[n].node.accesswidth

C23_Witness ==
    /\ last.op = "get_registers"
    /\ last.status = "ok"
    /\ last.arg = 1
    /\ Len(nodes) = 5
    /\ nodes[2].kind = "regfile"
    /\ nodes[3].kind = "regfile"
    /\ nodes[3].parent = 2
    /\ nodes[2].children = << 3, 5 >>
    /\ nodes[1].children = << 2 >>
    /\ last.ret = << 4, 5 >>

-----------------------------------------------------------------------------
(* C24 *)

\* a write(R, 0) sends zero chunks only and ends with every field mirror 0
ZeroWritten ==
    /\ (task.pc = "write" /\ task.data = Zero) =>
          /\ task.write_data = Zero
          /\ \A i \in 1..Len(log) : log[i].data = Zero
    /\ (WriteDone /\ last.arg = Zero) =>
          /\ Len(log) = subregs(reg_map[last.reg])
          /\ \A i \in 1..Len(log) : log[i].kind = "write" /\ log[i].data = Zero
          /\ \A fn \in FieldNames(reg_map[last.reg]) :
                desired_values[last.reg][fn] = Zero
          /\ get(desired_values, last.reg) = Zero

\* C24: explicit data 0 is data: write(R, 0) transmits all-zero chunks,
\* whatever the mirror holds, and leaves every field mirror of R at 0; only a
\* write with data omitted samples the mirror value get(R), and no step of
\* such a write changes the mirror.
C24_ExplicitZero ==
    /\ []ZeroWritten
    /\ [][(task.pc = "idle" /\ task'.pc = "write")
            => task'.write_data
                  = IF task'.data = None THEN get(desired_values, task'.reg)
                    ELSE task'.data]_vars
    /\ [][(task.pc = "write" /\ task.data = None)
            => desired_values' = desired_values]_vars

C24_Witness ==
    /\ task.pc = "write"
    /\ task.reg = "r4"
    /\ task.data = Zero
    /\ get(desired_values, "r4") = Shl(FromNat(18), 8)
    /\ log = << Txn("write", 2, Zero), Txn("write", 3, Zero) >>

-----------------------------------------------------------------------------
(* C25 *)

\* single notation "m" for one bit, range notation "m:l" otherwise
SliceNotation(m, l) ==
    IF m = l THEN ToString(m) ELSE ToString(m) \o ":" \o ToString(l)

\* C25: with idx = msb div accesswidth, get_cpuif_bit_slice reports
\* (msb - idx*accesswidth, lsb - idx*accesswidth) in single / range notation;
\* when regwidth = accesswidth this is what get_bit_slice reports; for a field
\* that lies within one sub-register the pair satisfies
\* 0 <= lsb' <= msb' < accesswidth.
C25_CpuifBitSlice ==
    /\ last.op = "get_cpuif_bit_slice" =>
          LET reg == node_map[last.reg]
              f == FieldOf(reg, last.field)
              idx == f.msb \div reg.accesswidth
              m == f.msb - idx * reg.accesswidth
              l == f.lsb - idx * reg.accesswidth
          IN  /\ last.ret = SliceNotation(m, l)
              /\ reg.regwidth = reg.accesswidth =>
                    /\ last.ret = get_bit_slice(f)
                    /\ last.ret = SliceNotation(f.msb, f.lsb)
              /\ (f.lsb \div reg.accesswidth) = idx =>
                    0 <= l /\ l <= m /\ m < reg.accesswidth
    /\ last.op = "get_bit_slice" =>
          LET f == FieldOf(node_map[last.reg], last.field)
          IN  last.ret = SliceNotation(f.msb, f.lsb)

C25_Witness ==
    /\ last.op = "get_cpuif_bit_slice"
    /\ last.reg = "g2"
    /\ last.field = "hi"
    /\ last.ret = "15:8"

-----------------------------------------------------------------------------
(* C26 *)

\* every chunk issued so far is a chunk of the value sampled at the call; a
\* completed write with explicit data has left in R's fields what set(R, data)
\* stores, whatever the other task had put there
SampledOnce ==
    /\ task.pc = "write" =>
          \A i \in 1..Len(log) :
              log[i] = Txn("write", write_addr(reg_map[task.reg], i - 1),
                           masked(reg_map[task.reg], task.write_data, i - 1))
    /\ (WriteDone /\ last.arg # None) =>
          /\ \A i \in 1..Len(log) :
                log[i].data = masked(reg_map[last.reg], last.arg, i - 1)
          /\ desired_values[last.reg]
                = set_desired(map_fields, last.reg, last.arg)[last.reg]
          /\ InRange(last.arg, reg_map[last.reg].regwidth) =>
                get(desired_values, last.reg)
                    = BitAnd(last.arg, field_mask(reg_map[last.reg]))
    /\ (WriteDone /\ last.arg = None) =>
          \A i \in 1..Len(log) :
              log[i].data = masked(reg_map[last.reg], written[last.reg], i - 1)

\* C26: when a second task calls set or set_field on R while write(R) is
\* suspended between its chunks, every chunk the write sends is still a chunk
\* of the one value sampled before the first chunk (the data, or get(R) at the
\* call); the value sampled is never sampled again; and a write with explicit
\* data ends with set(R, data) over the other task's values, so get(R) then
\* reflects the data.
C26_InterleavedSet ==
    /\ []SampledOnce
    /\ [][(task.pc = "idle" /\ task'.pc = "write")
            => task'.write_data
                  = IF task'.data = None THEN get(desired_values, task'.reg)
                    ELSE task'.data]_vars
    /\ [][(task.pc = "write" /\ task'.pc = "write")
            => (task'.write_data = task.write_data /\ task'.data = task.data)]_vars
    /\ [][(task.pc = "write" /\ task'.pc = "idle")
            => written'[task.reg] = task.write_data]_vars

C26_Witness ==
    /\ WriteDone
    /\ last.reg = "r5"
    /\ last.arg = DataPool[1]
    /\ other = << Call("set", "r5", "", Zero, "ok", None) >>
    /\ Len(log) = 4
    /\ get(desired_values, "r5") = DataPool[1]

-----------------------------------------------------------------------------
(* C27 *)

\* C27 as stated: in every state reached by set, set_field, randomize,
\* randomize_field, reset, reset_field and write calls with arbitrary
\* non-negative arguments, every field's mirror value v satisfies
\* 0 <= v < 2^width(field), and so 0 <= get(R) < 2^regwidth(R).
C27_Original ==
    \A p \in Paths :
        /\ \A i \in FieldIdx(reg_map[p]) :
              LET field == reg_map[p].fields[i]
              IN  /\ IsValue(desired_values[p][field.inst_name])
                  /\ InRange(desired_values[p][field.inst_name], width(field))
        /\ InRange(get(desired_values, p), reg_map[p].regwidth)

-----------------------------------------------------------------------------
(* C28 *)

\* C28 as stated: for every register path p of the Register Index and every
\* field name f, read(p, f) resolves the field under the key (p, f) that
\* get_field(p, f) uses, so it fails with a lookup error if and only if
\* get_field(p, f) does.
C28_Original ==
    (last.op = "read" /\ last.field # "" /\ has_register(last.reg)) =>
        /\ last.status = "KeyError"
              <=> ~has_field(desired_values, last.reg, last.field)
        /\ task.pc = "read_field" => task.owner = task.reg

-----------------------------------------------------------------------------
(* C29 *)

\* the operations that may change the mirror
Mutators ==
    {"set", "set_field", "randomize", "randomize_field", "reset", "reset_field",
     "write"}

\* the operation a step belongs to, and the register it was called with: the
\* suspended coroutine that resumes, or else the call the step makes
StepOp ==
    IF task.pc = "write" THEN "write"
    ELSE IF task.pc \in {"read_register", "read_field"} THEN "read"
    ELSE last'.op

StepReg == IF task.pc # "idle" THEN task.reg ELSE last'.reg

\* the mirror has one entry per register path of the index and, in it, one
\* per field of the register
MirrorShape ==
    /\ DOMAIN desired_values = DOMAIN reg_map
    /\ \A p \in DOMAIN reg_map : DOMAIN desired_values[p] = FieldNames(reg_map[p])

\* C29: a step changes the mirror of a register only if it is a step of set,
\* set_field, randomize, randomize_field, reset, reset_field or write called
\* on that very register; steps of read, get, get_field, get_register_by_name
\* and split_value_over_fields change no mirror value; and no step changes
\* which registers and fields the mirror and the Register Index hold.
C29_Frame ==
    /\ []MirrorShape
    /\ [][(\A p \in Paths :
              desired_values'[p] # desired_values[p]
                  => (StepOp \in Mutators /\ StepReg = p))]_vars
    /\ [][(StepOp \in {"read", "get", "get_field", "get_register_by_name",
                       "split_value_over_fields"}
             => desired_values' = desired_values)]_vars

C29_Witness ==
    /\ last = Call("set_field", "r5", "f3", FromNat(165), "ok", None)
    /\ get_field(desired_values, "r5", "f3") = FromNat(165)
    /\ get_field(desired_values, "r5", "f1") = Zero
    /\ get(desired_values, "r4") = Shl(FromNat(18), 8)
    /\ get(desired_values, "r2_array_0") = FromNat(9)

-----------------------------------------------------------------------------
(* C30 *)

\* the registers of the map occupy pairwise disjoint byte ranges
DisjointLayout ==
    \A p, q \in Paths :
        p # q => ByteRange(reg_map[p]) \cap ByteRange(reg_map[q]) = {}

\* every address of the running or last access lies in the bytes of the
\* register accessed; a completed read(R) returns the value last written to R
OwnAddresses ==
    /\ DisjointLayout
    /\ task.pc # "idle" =>
          \A i \in 1..Len(log) : log[i].addr \in ByteRange(reg_map[task.reg])
    /\ (task.pc = "idle" /\ last.op \in {"read", "write"} /\ last.status = "ok") =>
          \A i \in 1..Len(log) : log[i].addr \in ByteRange(reg_map[last.reg])
    /\ (/\ ReadRegDone
        /\ written[last.reg] # None
        /\ InRange(written[last.reg], reg_map[last.reg].regwidth)) =>
          last.ret = written[last.reg]

\* C30: in a layout of pairwise disjoint byte ranges every transport address
\* used for register R (base + i for chunk i of a write or read, and
\* Field.absolute_address for a field read) lies inside R's range
\* [base, base + regwidth/8); a write to R stores nothing outside that range;
\* so on the loop-back transport read(R) returns the value last written to R
\* (a value below 2^regwidth), whatever was written to other registers before
\* or after it.
C30_OwnByteRange ==
    /\ []OwnAddresses
    /\ [][(task.pc = "write")
            => \A a \in Addrs :
                  a \notin ByteRange(reg_map[task.reg]) => hw'[a] = hw[a]]_vars

C30_Witness ==
    /\ ReadRegDone
    /\ last.reg = "r4"
    /\ written["r4"] = FromBytes(<< 52, 205 >>)
    /\ wr = [reg |-> "r5", data |-> DataPool[1], status |-> "ok"]
    /\ hw[4] = FromNat(52)
    /\ last.ret = FromBytes(<< 52, 205 >>)

====
